---- MODULE Spec2Model ----
(***************************************************************************)
(* A model of examples/basic_context_manager.py: the three-tier memory     *)
(* store (MemoryManager), the keyword retrieval engine, the truncating     *)
(* compression engine and the ContextManager that drives them.             *)
(*                                                                         *)
(* Text is a sequence of one-character strings.  Floats that the code      *)
(* computes as quotients of integers are kept as reduced fractions         *)
(* <<numerator, denominator>>.  The wall clock is read in hours; two       *)
(* readings of datetime.now() may return the same value.                   *)
(***************************************************************************)
EXTENDS Integers, Sequences, FiniteSets, TLC

VARIABLES
    active_memory,      \* MemoryManager.active_memory   (insertion-ordered dict)
    working_memory,     \* MemoryManager.working_memory
    long_term_memory,   \* MemoryManager.long_term_memory
    metrics,            \* ContextManager.metrics (total_segments, active_segments)
    last_cleanup,       \* ContextManager._last_cleanup
    now,                \* the reading datetime.now() returns, in hours
    last_op,            \* the last completed call: its name,
    last_arg,           \*   its argument
    last_result,        \*   and what it returned
    call,               \* a call of a pure engine function: inputs and output
    removed             \* history: the ids for which remove_context returned True

vars == <<active_memory, working_memory, long_term_memory, metrics,
          last_cleanup, now, last_op, last_arg, last_result, call, removed>>

-----------------------------------------------------------------------------
(* Bounds of the model *)

MaxSegments == 2        \* cap of metrics.total_segments: add_context stops there
MaxReads == 1           \* cap of the reads by id that the stored segments have counted
MaxLen == 40            \* length of the contents given to compress on its own

-----------------------------------------------------------------------------
(* Text *)

UPPER == <<"A","B","C","D","E","F","G","H","I","J","K","L","M",
           "N","O","P","Q","R","S","T","U","V","W","X","Y","Z">>
LOWER == <<"a","b","c","d","e","f","g","h","i","j","k","l","m",
           "n","o","p","q","r","s","t","u","v","w","x","y","z">>

Whitespace == {" ", "\t", "\n"}

LowerOf == [ch \in {UPPER[i] : i \in 1..Len(UPPER)} |->
               LOWER[CHOOSE i \in 1..Len(UPPER) : UPPER[i] = ch]]

\* str.lower(), one character
lower_char(ch) == IF ch \in DOMAIN LowerOf THEN LowerOf[ch] ELSE ch

\* str.lower()
lower(s) == [i \in 1..Len(s) |-> lower_char(s[i])]

\* str.split(): the maximal runs of non-whitespace characters, in order
RECURSIVE split_from(_, _, _)
split_from(s, i, word) ==
    IF i > Len(s)
    THEN IF word = <<>> THEN <<>> ELSE <<word>>
    ELSE IF s[i] \in Whitespace
         THEN IF word = <<>>
              THEN split_from(s, i + 1, <<>>)
              ELSE <<word>> \o split_from(s, i + 1, <<>>)
         ELSE split_from(s, i + 1, Append(word, s[i]))

split(s) == split_from(s, 1, <<>>)

\* set(text.lower().split())
word_set(s) == LET w == split(lower(s)) IN {w[i] : i \in 1..Len(w)}

\* content[:n] for 0 <= n
prefix(s, n) == SubSeq(s, 1, IF n < Len(s) THEN n ELSE Len(s))

\* content[-n:] for n > 0
suffix(s, n) == IF n >= Len(s) THEN s ELSE SubSeq(s, Len(s) - n + 1, Len(s))

-----------------------------------------------------------------------------
(* Numbers *)

RECURSIVE gcd(_, _)
gcd(a, b) == IF b = 0 THEN a ELSE gcd(b, a % b)

\* the float a / b, b > 0, as a reduced fraction
Frac(a, b) == LET g == gcd(a, b) IN <<a \div g, b \div g>>

One == <<1, 1>>
Zero == <<0, 1>>

FracLess(x, y) == x[1] * y[2] < y[1] * x[2]

-----------------------------------------------------------------------------
(* BasicCompressionEngine *)

MarkerMiddle == <<".",".",".","[","t","r","u","n","c","a","t","e","d","]",".",".",".">>
MarkerEnd == <<".",".",".","[","t","r","u","n","c","a","t","e","d","]">>

\* int(len(content) * target_ratio) for target_ratio = r[1] / r[2].  The float
\* product truncates to this integer for the ratios and lengths of the model.
target_length(content, r) == (Len(content) * r[1]) \div r[2]

\* int(target_length * 0.7); the float product truncates to this for
\* target_length < 90.
keep_start_of(t) == (t * 7) \div 10

compress(content, target_ratio) ==
    LET t == target_length(content, target_ratio)
        keep_start == keep_start_of(t)
        keep_end == t - keep_start
    IN  IF t >= Len(content)
        THEN content
        ELSE IF keep_end > 0
             THEN prefix(content, keep_start) \o MarkerMiddle \o suffix(content, keep_end)
             ELSE prefix(content, keep_start) \o MarkerEnd

decompress(compressed_content) == compressed_content

get_compression_ratio(original, compressed) ==
    IF Len(original) > 0 THEN Frac(Len(compressed), Len(original)) ELSE One

-----------------------------------------------------------------------------
(* Sequences *)

\* list.sort(key=..., reverse=True) is stable: elements with equal keys keep
\* their order.  keys[i] is the key of s[i], a fraction.
\* a sort that puts an element before the elements of equal key
RECURSIVE insert_desc_ties_first(_, _)
insert_desc_ties_first(sorted, x) ==
    IF sorted = <<>> THEN <<x>>
    ELSE IF ~FracLess(x.key, Head(sorted).key)
         THEN <<x>> \o sorted
         ELSE <<Head(sorted)>> \o insert_desc_ties_first(Tail(sorted), x)

RECURSIVE insert_desc(_, _)
insert_desc(sorted, x) ==
    IF sorted = <<>> THEN <<x>>
    ELSE IF FracLess(Head(sorted).key, x.key)
         THEN <<x>> \o sorted
         ELSE <<Head(sorted)>> \o insert_desc(Tail(sorted), x)

RECURSIVE sort_desc_from(_, _, _, _)
sort_desc_from(s, keys, i, acc) ==
    IF i > Len(s) THEN acc
    ELSE sort_desc_from(s, keys, i + 1,
                        insert_desc(acc, [key |-> keys[i], item |-> s[i]]))

sort_desc(s, keys) ==
    LET sorted == sort_desc_from(s, keys, 1, <<>>)
    IN  [i \in 1..Len(sorted) |-> sorted[i].item]

\* s[:n]
slice_to(s, n) ==
    IF n >= 0 THEN prefix(s, n)
    ELSE SubSeq(s, 1, IF Len(s) + n > 0 THEN Len(s) + n ELSE 0)

\* s[n:] for 0 <= n
slice_from(s, n) == SubSeq(s, n + 1, Len(s))

-----------------------------------------------------------------------------
(* ContextSegment, ContextConfig *)

\* ContextSegment(id, content, metadata, timestamp, relevance_score) with the
\* dataclass defaults; metadata is opaque and left out.
ContextSegment(id, content, timestamp, relevance_score) ==
    [id |-> id, content |-> content, timestamp |-> timestamp,
     relevance_score |-> relevance_score, access_count |-> 0,
     compression_ratio |-> One]

ACTIVE == "active"
WORKING == "working"
LONG_TERM == "long_term"
Tiers == <<ACTIVE, WORKING, LONG_TERM>>

max_context_size == 10                  \* ContextConfig(max_context_size=10): the budget the caller sets
compression_target_ratio == <<3, 10>>   \* ContextConfig default 0.3
cleanup_interval_minutes == 60          \* ContextConfig default
retention_days == 30                    \* _cleanup_old_segments: timedelta(days=30)
min_access_kept == 2                    \* _cleanup_old_segments: access_count < 2

\* timedelta(minutes=cleanup_interval_minutes) and timedelta(days=30), in hours
CleanupInterval == cleanup_interval_minutes \div 60
Retention == retention_days * 24

-----------------------------------------------------------------------------
(* Inputs *)

ContentA == <<"A","b"," ","c","d">>
ContentL == <<"a","b"," ","c","d","e"," ","f","g"," ","h","i","j"," ",
              "a","b"," ","c","d","e"," ","f","g"," ","h","i","j"," ","x","y">>
Contents == {ContentA, ContentL}

QueryNone == <<>>
QueryCde == <<"c","d","e">>
QueryAbXy == <<"A","B"," ","x","y">>
Queries == {QueryNone, QueryCde, QueryAbXy}

Limits == {1, 10}

\* an id no segment has
NoSuchId == <<<<>>, 0>>

\* the readings the clock takes
Readings == {0, 1, Retention + 1}


\* the texts a segment of the model can hold: a content, compressed any number
\* of times
RECURSIVE compressed_forms(_)
compressed_forms(texts) ==
    LET more == texts \cup {compress(c, compression_target_ratio) : c \in texts}
    IN  IF more = texts THEN texts ELSE compressed_forms(more)

Texts == compressed_forms(Contents) \cup Queries

\* set(text.lower().split()), tabulated for the texts of the model
WordSets == [s \in Texts |-> word_set(s)]

words_of(s) == IF s \in Texts THEN WordSets[s] ELSE word_set(s)

-----------------------------------------------------------------------------
(* BasicRetrievalEngine *)

\* len(query_words.intersection(content_words))
overlap(query_words, segment) ==
    Cardinality(query_words \cap words_of(segment.content))

\* a loop that writes the score 0 on the segments that share no word with the
\* query
RECURSIVE retrieve_loop_scoring_all(_, _, _, _, _)
retrieve_loop_scoring_all(query_words, segments, i, written, scored) ==
    IF i > Len(segments) THEN [segments |-> written, scored_segments |-> scored]
    ELSE LET n == overlap(query_words, segments[i])
             segment == [segments[i] EXCEPT !.relevance_score =
                            IF n > 0 THEN Frac(n, Cardinality(query_words))
                            ELSE Zero]
         IN  IF n > 0
             THEN retrieve_loop_scoring_all(query_words, segments, i + 1,
                                Append(written, segment), Append(scored, segment))
             ELSE retrieve_loop_scoring_all(query_words, segments, i + 1,
                                Append(written, segment), scored)

\* a loop that weights the new score by the score the segment had
RECURSIVE retrieve_loop_weighting(_, _, _, _, _)
retrieve_loop_weighting(query_words, segments, i, written, scored) ==
    IF i > Len(segments) THEN [segments |-> written, scored_segments |-> scored]
    ELSE LET n == overlap(query_words, segments[i])
             was == segments[i].relevance_score
             segment == [segments[i] EXCEPT !.relevance_score =
                            Frac(n * was[1], Cardinality(query_words) * was[2])]
         IN  IF n > 0
             THEN retrieve_loop_weighting(query_words, segments, i + 1,
                                Append(written, segment), Append(scored, segment))
             ELSE retrieve_loop_weighting(query_words, segments, i + 1,
                                Append(written, segments[i]), scored)

\* the for loop of retrieve from the i-th segment on: written is the candidate
\* list with the scores written so far, scored the list scored_segments
RECURSIVE retrieve_loop(_, _, _, _, _)
retrieve_loop(query_words, segments, i, written, scored) ==
    IF i > Len(segments) THEN [segments |-> written, scored_segments |-> scored]
    ELSE LET n == overlap(query_words, segments[i])
             segment == [segments[i] EXCEPT !.relevance_score =
                            Frac(n, Cardinality(query_words))]
         IN  IF n > 0
             THEN retrieve_loop(query_words, segments, i + 1,
                                Append(written, segment), Append(scored, segment))
             ELSE retrieve_loop(query_words, segments, i + 1,
                                Append(written, segments[i]), scored)

\* retrieve(query, segments, limit): the candidates as the call leaves them and
\* the list it returns
BasicRetrievalEngine_retrieve(query, segments, limit) ==
    LET query_words == words_of(query)
        loop == retrieve_loop(query_words, segments, 1, <<>>, <<>>)
        scored_segments == loop.scored_segments
    IN  [segments |-> loop.segments,
         result |-> slice_to(
            sort_desc(scored_segments,
                      [i \in 1..Len(scored_segments) |->
                          scored_segments[i].relevance_score]),
            limit)]

-----------------------------------------------------------------------------
(* MemoryManager: mm is [active, working, long_term], each an insertion-ordered
   dict, kept as the sequence of its values *)

index_of(tier_dict, segment_id) ==
    IF \E i \in 1..Len(tier_dict) : tier_dict[i].id = segment_id
    THEN CHOOSE i \in 1..Len(tier_dict) : tier_dict[i].id = segment_id
    ELSE 0

\* d[key] = value
dict_set(tier_dict, segment) ==
    LET i == index_of(tier_dict, segment.id)
    IN  IF i = 0 THEN Append(tier_dict, segment)
        ELSE [tier_dict EXCEPT ![i] = segment]

\* d.pop(key, None)
dict_pop(tier_dict, segment_id) ==
    LET i == index_of(tier_dict, segment_id)
    IN  IF i = 0 THEN tier_dict
        ELSE SubSeq(tier_dict, 1, i - 1) \o SubSeq(tier_dict, i + 1, Len(tier_dict))

store(mm, tier, segment) == [mm EXCEPT ![tier] = dict_set(@, segment)]

\* retrieve(tier, segment_id): found, and the store with the access counted
MemoryManager_retrieve(mm, tier, segment_id) ==
    LET i == index_of(mm[tier], segment_id)
    IN  IF i = 0 THEN [found |-> FALSE, mm |-> mm, index |-> 0]
        ELSE [found |-> TRUE,
              mm |-> [mm EXCEPT ![tier][i].access_count = @ + 1],
              index |-> i]

delete(mm, tier, segment_id) ==
    [deleted |-> index_of(mm[tier], segment_id) # 0,
     mm |-> [mm EXCEPT ![tier] = dict_pop(@, segment_id)]]

get_all_segments(mm, tier) == mm[tier]

get_memory_usage(mm) ==
    [active |-> Len(mm.active), working |-> Len(mm.working),
     long_term |-> Len(mm.long_term),
     total |-> Len(mm.active) + Len(mm.working) + Len(mm.long_term)]

-----------------------------------------------------------------------------
(* ContextManager: the pure part of each method *)

\* hashlib.md5(f"{content}{datetime.now()}").hexdigest(): one id for each pair
\* of a content and a clock reading
_generate_segment_id(content, t) == <<content, t>>

\* score_segment: relevance_score * (1.0 / (1.0 + hours)) * access_count
score_segment(segment, t) ==
    Frac(segment.relevance_score[1] * segment.access_count,
         segment.relevance_score[2] * (1 + (t - segment.timestamp)))

\* round(len(active_segments) * 0.6) in place of int(...)
keep_count_rounded(n) == (n * 6 + 5) \div 10

\* int(len(active_segments) * 0.6)
keep_count(n) == (n * 6) \div 10

\* a loop that stores the segments it takes from active into long_term
RECURSIVE move_all_to_long_term(_, _, _)
move_all_to_long_term(mm, segments, i) ==
    IF i > Len(segments) THEN mm
    ELSE move_all_to_long_term(
            store(delete(mm, ACTIVE, segments[i].id).mm, LONG_TERM, segments[i]),
            segments, i + 1)

\* for segment in move_to_working: delete from active, store into working
RECURSIVE move_all(_, _, _)
move_all(mm, segments, i) ==
    IF i > Len(segments) THEN mm
    ELSE move_all(store(delete(mm, ACTIVE, segments[i].id).mm, WORKING, segments[i]),
                  segments, i + 1)

\* the list move_to_working: the active segments sorted by score, less the
\* first keep_count of them
move_to_working_of(mm, t) ==
    LET listed == get_all_segments(mm, ACTIVE)
        active_segments ==
            sort_desc(listed, [i \in 1..Len(listed) |-> score_segment(listed[i], t)])
    IN  slice_from(active_segments, keep_count(Len(active_segments)))

_optimize_active_memory(mm, t) == move_all(mm, move_to_working_of(mm, t), 1)

RECURSIVE sum_len(_, _)
sum_len(segments, i) ==
    IF i > Len(segments) THEN 0
    ELSE Len(segments[i].content) + sum_len(segments, i + 1)

current_size(mm) == sum_len(get_all_segments(mm, ACTIVE), 1)

\* a pass repeated until the active contents fit the budget
RECURSIVE _maybe_optimize_memory_until_fit(_, _)
_maybe_optimize_memory_until_fit(mm, t) ==
    IF current_size(mm) > max_context_size
    THEN _maybe_optimize_memory_until_fit(_optimize_active_memory(mm, t), t)
    ELSE mm

_maybe_optimize_memory(mm, t) ==
    IF current_size(mm) > max_context_size
    THEN _optimize_active_memory(mm, t)
    ELSE mm

\* the test with "or" in place of "and"
expired_either(segment, t) ==
    \/ segment.timestamp < t - Retention
    \/ segment.access_count < min_access_kept

\* segment.timestamp < cutoff_time and segment.access_count < 2
expired(segment, t) ==
    /\ segment.timestamp < t - Retention
    /\ segment.access_count < min_access_kept

RECURSIVE cleanup_from(_, _, _, _)
cleanup_from(mm, segments, i, t) ==
    IF i > Len(segments) THEN mm
    ELSE cleanup_from(IF expired(segments[i], t)
                      THEN delete(mm, LONG_TERM, segments[i].id).mm
                      ELSE mm,
                      segments, i + 1, t)

_cleanup_old_segments(mm, t) ==
    cleanup_from(mm, get_all_segments(mm, LONG_TERM), 1, t)

\* add_context up to the metrics: the new segment stored, the size checked
add_context(mm, content, t) ==
    LET segment == ContextSegment(_generate_segment_id(content, t), content, t, One)
    IN  _maybe_optimize_memory(store(mm, ACTIVE, segment), t)

\* _maybe_optimize_memory and add_context of a ContextManager whose
\* configuration sets max_context_size to size
maybe_optimize_under(mm, t, size) ==
    IF current_size(mm) > size
    THEN _optimize_active_memory(mm, t)
    ELSE mm

add_context_under(mm, content, t, size) ==
    LET segment == ContextSegment(_generate_segment_id(content, t), content, t, One)
    IN  maybe_optimize_under(store(mm, ACTIVE, segment), t, size)

\* retrieve_relevant: the tiers with the scores written, and the list returned
retrieve_relevant(mm, query, limit) ==
    LET all_segments == get_all_segments(mm, ACTIVE) \o get_all_segments(mm, WORKING)
                        \o get_all_segments(mm, LONG_TERM)
        r == BasicRetrievalEngine_retrieve(query, all_segments, limit)
        na == Len(mm.active)
        nw == Len(mm.working)
    IN  [mm |-> [active |-> SubSeq(r.segments, 1, na),
                 working |-> SubSeq(r.segments, na + 1, na + nw),
                 long_term |-> SubSeq(r.segments, na + nw + 1, Len(r.segments))],
         result |-> r.result]

\* remove_context: delete from the first tier that holds the id
RECURSIVE remove_from(_, _, _)
remove_from(mm, segment_id, k) ==
    IF k > Len(Tiers) THEN [result |-> FALSE, mm |-> mm]
    ELSE LET d == delete(mm, Tiers[k], segment_id)
         IN  IF d.deleted THEN [result |-> TRUE, mm |-> d.mm]
             ELSE remove_from(mm, segment_id, k + 1)

remove_context(mm, segment_id) == remove_from(mm, segment_id, 1)

\* a search that asks retrieve whether the tier holds the id and then asks it
\* again for the segment
RECURSIVE find_from_asking_twice(_, _, _)
find_from_asking_twice(mm, segment_id, k) ==
    IF k > Len(Tiers) THEN [found |-> FALSE, mm |-> mm, tier |-> "", index |-> 0]
    ELSE LET r == MemoryManager_retrieve(mm, Tiers[k], segment_id)
             again == MemoryManager_retrieve(r.mm, Tiers[k], segment_id)
         IN  IF r.found
             THEN [found |-> TRUE, mm |-> again.mm, tier |-> Tiers[k],
                   index |-> again.index]
             ELSE find_from_asking_twice(r.mm, segment_id, k + 1)

\* the search loop of compress_context: the first tier whose retrieve finds the id
RECURSIVE find_from(_, _, _)
find_from(mm, segment_id, k) ==
    IF k > Len(Tiers) THEN [found |-> FALSE, mm |-> mm, tier |-> "", index |-> 0]
    ELSE LET r == MemoryManager_retrieve(mm, Tiers[k], segment_id)
         IN  IF r.found
             THEN [found |-> TRUE, mm |-> r.mm, tier |-> Tiers[k], index |-> r.index]
             ELSE find_from(r.mm, segment_id, k + 1)

\* a compress_context that returns True whether or not it found the segment
compress_context_no_failure(mm, segment_id) ==
    LET f == find_from(mm, segment_id, 1)
    IN  IF ~f.found THEN [result |-> TRUE, mm |-> f.mm]
        ELSE LET segment == f.mm[f.tier][f.index]
                 compressed_content == compress(segment.content, compression_target_ratio)
                 overwritten == [segment EXCEPT !.content = compressed_content]
                 updated == [overwritten EXCEPT !.compression_ratio =
                               get_compression_ratio(overwritten.content,
                                                     compressed_content)]
             IN  [result |-> TRUE, mm |-> store(f.mm, f.tier, updated)]

\* compress_context: segment.content is overwritten first, and the ratio is
\* then taken of segment.content and compressed_content
compress_context(mm, segment_id) ==
    LET f == find_from(mm, segment_id, 1)
    IN  IF ~f.found THEN [result |-> FALSE, mm |-> f.mm]
        ELSE LET segment == f.mm[f.tier][f.index]
                 compressed_content == compress(segment.content, compression_target_ratio)
                 overwritten == [segment EXCEPT !.content = compressed_content]
                 updated == [overwritten EXCEPT !.compression_ratio =
                               get_compression_ratio(overwritten.content,
                                                     compressed_content)]
             IN  [result |-> TRUE, mm |-> store(f.mm, f.tier, updated)]

\* the test with ">=" in place of ">"
cleanup_due_at_interval(t, last_run) == t - last_run >= CleanupInterval

\* datetime.now() - self._last_cleanup > timedelta(minutes=cleanup_interval_minutes)
cleanup_due(t, last_run) == t - last_run > CleanupInterval

\* optimize: the pass, then the cleanup when the interval has elapsed

optimize(mm, t, last_run) ==
    LET optimized == _optimize_active_memory(mm, t)
    IN  IF cleanup_due(t, last_run)
        THEN [mm |-> _cleanup_old_segments(optimized, t), _last_cleanup |-> t]
        ELSE [mm |-> optimized, _last_cleanup |-> last_run]

-----------------------------------------------------------------------------
(* State *)

MM == [active |-> active_memory, working |-> working_memory,
       long_term |-> long_term_memory]

AllSegments == active_memory \o working_memory \o long_term_memory

IdsStored == {AllSegments[i].id : i \in 1..Len(AllSegments)}

SetMM(mm) ==
    /\ active_memory' = mm.active
    /\ working_memory' = mm.working
    /\ long_term_memory' = mm.long_term

NoCall == [fn |-> "none"]

\* the call op(arg) has returned result
Returns(op, arg, result) ==
    /\ last_op' = op
    /\ last_arg' = arg
    /\ last_result' = result

Init ==
    /\ active_memory = <<>>
    /\ working_memory = <<>>
    /\ long_term_memory = <<>>
    /\ metrics = [total_segments |-> 0, active_segments |-> 0]
    /\ last_cleanup = 0
    /\ now = 0
    /\ last_op = "init"
    /\ last_arg = <<>>
    /\ last_result = <<>>
    /\ call = NoCall
    /\ removed = {}

-----------------------------------------------------------------------------
(* The clock *)

Tick ==
    /\ \E t \in Readings : t > now /\ now' = t
    /\ Returns("tick", <<>>, <<>>)
    /\ UNCHANGED <<active_memory, working_memory, long_term_memory, metrics,
                   last_cleanup, call, removed>>

-----------------------------------------------------------------------------
(* The public methods of ContextManager *)

AddContext ==
    /\ metrics.total_segments < MaxSegments
    /\ Len(AllSegments) < MaxSegments
    /\ \E content \in Contents :
         LET mm == add_context(MM, content, now)
         IN  /\ SetMM(mm)
             /\ metrics' = [total_segments |-> metrics.total_segments + 1,
                            active_segments |-> Len(get_all_segments(mm, ACTIVE))]
             /\ Returns("add_context", content,
                         _generate_segment_id(content, now))
    /\ UNCHANGED <<last_cleanup, now, call, removed>>

RetrieveRelevant ==
    /\ \E query \in Queries, limit \in Limits :
         LET r == retrieve_relevant(MM, query, limit)
         IN  /\ SetMM(r.mm)
             /\ Returns("retrieve_relevant", <<query, limit>>,
                         r.result)
    /\ UNCHANGED <<metrics, last_cleanup, now, call, removed>>

\* a remove_context that leaves metrics.total_segments as it is
RemoveContextStepUncounted(track) ==
    /\ \E segment_id \in IdsStored \cup removed \cup {NoSuchId} :
         LET r == remove_context(MM, segment_id)
         IN  /\ SetMM(r.mm)
             /\ metrics' = IF r.result
                           THEN [metrics EXCEPT !.active_segments =
                                    Len(get_all_segments(r.mm, ACTIVE))]
                           ELSE metrics
             /\ Returns("remove_context", segment_id, r.result)
             /\ removed' = IF track /\ r.result
                           THEN removed \cup {segment_id}
                           ELSE removed
    /\ UNCHANGED <<last_cleanup, now, call>>

\* remove_context; track says whether the history variable removed is kept
RemoveContextStep(track) ==
    /\ \E segment_id \in IdsStored \cup removed \cup {NoSuchId} :
         LET r == remove_context(MM, segment_id)
         IN  /\ SetMM(r.mm)
             /\ metrics' = IF r.result
                           THEN [total_segments |-> metrics.total_segments - 1,
                                 active_segments |->
                                     Len(get_all_segments(r.mm, ACTIVE))]
                           ELSE metrics
             /\ Returns("remove_context", segment_id, r.result)
             /\ removed' = IF track /\ r.result
                           THEN removed \cup {segment_id}
                           ELSE removed
    /\ UNCHANGED <<last_cleanup, now, call>>

RemoveContext == RemoveContextStep(FALSE)

RemoveContextTracked == RemoveContextStep(TRUE)

RECURSIVE sum_access(_, _)
sum_access(segments, i) ==
    IF i > Len(segments) THEN 0
    ELSE segments[i].access_count + sum_access(segments, i + 1)

\* the stored segments have been read by id fewer than MaxReads times in all
Readable == sum_access(AllSegments, 1) < MaxReads

CompressContext ==
    /\ \E segment_id \in IdsStored \cup {NoSuchId} :
         /\ Readable
         /\ LET r == compress_context(MM, segment_id)
            IN  /\ SetMM(r.mm)
                /\ Returns("compress_context", segment_id,
                            r.result)
    /\ UNCHANGED <<metrics, last_cleanup, now, call, removed>>

Optimize ==
    /\ LET r == optimize(MM, now, last_cleanup)
       IN  /\ SetMM(r.mm)
           /\ last_cleanup' = r._last_cleanup
           /\ Returns("optimize", <<>>,
                       [memory_usage |-> get_memory_usage(r.mm),
                                   metrics |-> metrics])
    /\ UNCHANGED <<metrics, now, call, removed>>

GetMetrics ==
    /\ metrics' = [metrics EXCEPT !.active_segments =
                      Len(get_all_segments(MM, ACTIVE))]
    /\ Returns("get_metrics", <<>>, metrics')
    /\ UNCHANGED <<active_memory, working_memory, long_term_memory,
                   last_cleanup, now, call, removed>>

GetStatus ==
    /\ metrics' = [metrics EXCEPT !.active_segments =
                      Len(get_all_segments(MM, ACTIVE))]
    /\ Returns("get_status", <<>>,
                [memory_usage |-> get_memory_usage(MM),
                            metrics |-> metrics',
                            last_cleanup |-> last_cleanup])
    /\ UNCHANGED <<active_memory, working_memory, long_term_memory,
                   last_cleanup, now, call, removed>>

Next ==
    \/ Tick
    \/ AddContext
    \/ RetrieveRelevant
    \/ RemoveContext
    \/ CompressContext
    \/ Optimize

Spec == Init /\ [][Next]_vars

\* every public method of the ContextManager
NextPublic ==
    \/ Next
    \/ GetMetrics
    \/ GetStatus

SpecPublic == Init /\ [][NextPublic]_vars

-----------------------------------------------------------------------------
(* The MemoryManager called directly, and the cleanup on its own *)

\* ContextSegment.from_dict(data): a segment with the fields the caller gives
from_dict(data) ==
    [id |-> data.id, content |-> data.content, timestamp |-> data.timestamp,
     relevance_score |-> data.relevance_score, access_count |-> data.access_count,
     compression_ratio |-> data.compression_ratio]

\* the segments a caller stores: written at an earlier reading of the clock,
\* read by id up to min_access_kept times since
StoredData ==
    [id : {_generate_segment_id(c, t) : c \in Contents, t \in {r \in Readings : r <= now}},
     content : Contents,
     timestamp : {r \in Readings : r <= now},
     relevance_score : {One},
     access_count : 0..min_access_kept,
     compression_ratio : {One}]

TierStore ==
    /\ Len(AllSegments) < MaxSegments
    /\ \E data \in StoredData :
         /\ data.id = _generate_segment_id(data.content, data.timestamp)
         /\ SetMM(store(MM, LONG_TERM, from_dict(data)))
         /\ Returns("store", <<LONG_TERM, data.id>>, data.id)
    /\ UNCHANGED <<metrics, last_cleanup, now, call, removed>>

TierFetch ==
    /\ Readable
    /\ \E k \in 1..Len(Tiers), segment_id \in IdsStored \cup {NoSuchId} :
         LET r == MemoryManager_retrieve(MM, Tiers[k], segment_id)
         IN  /\ SetMM(r.mm)
             /\ Returns("retrieve", <<Tiers[k], segment_id>>, r.found)
    /\ UNCHANGED <<metrics, last_cleanup, now, call, removed>>

TierDelete ==
    /\ \E k \in 1..Len(Tiers), segment_id \in IdsStored \cup {NoSuchId} :
         LET r == delete(MM, Tiers[k], segment_id)
         IN  /\ SetMM(r.mm)
             /\ Returns("delete", <<Tiers[k], segment_id>>, r.deleted)
    /\ UNCHANGED <<metrics, last_cleanup, now, call, removed>>

CleanupOldSegments ==
    /\ SetMM(_cleanup_old_segments(MM, now))
    \* the method returns None; recorded is how many segments it deleted
    /\ Returns("_cleanup_old_segments", <<>>,
               Len(long_term_memory) - Len(long_term_memory'))
    /\ UNCHANGED <<metrics, last_cleanup, now, call, removed>>

\* the MemoryManager used as a store, with the two maintenance passes
NextTier ==
    \/ Tick
    \/ TierStore
    \/ TierFetch
    \/ TierDelete
    \/ CleanupOldSegments
    \/ Optimize

SpecTier == Init /\ [][NextTier]_vars

\* the ContextManager, and reads by id of its MemoryManager
NextFetch ==
    \/ Next
    \/ TierFetch

SpecFetch == Init /\ [][NextFetch]_vars

\* the ContextManager with the history of the removed ids
NextRemove ==
    \/ Tick
    \/ AddContext
    \/ RetrieveRelevant
    \/ RemoveContextTracked
    \/ CompressContext
    \/ Optimize

SpecRemove == Init /\ [][NextRemove]_vars

\* store(ACTIVE, segment), called directly
TierStoreActive ==
    /\ Len(AllSegments) < MaxSegments
    /\ \E data \in StoredData :
         /\ data.id = _generate_segment_id(data.content, data.timestamp)
         /\ SetMM(store(MM, ACTIVE, from_dict(data)))
         /\ Returns("store", <<ACTIVE, data.id>>, data.id)
    /\ UNCHANGED <<metrics, last_cleanup, now, call, removed>>

\* optimize and the cleanup on a store that add_context and a caller of the
\* MemoryManager fill
NextMaintain ==
    \/ Tick
    \/ AddContext
    \/ TierStore
    \/ TierStoreActive
    \/ CleanupOldSegments
    \/ Optimize

SpecMaintain == Init /\ [][NextMaintain]_vars

-----------------------------------------------------------------------------
(* optimize run by one caller, one MemoryManager call at a time, while another
   caller adds and removes segments.  call holds the pass in progress: the
   list move_to_working, the position in it, and the call that comes next.
   Segment ids are distinct here. *)

InPass == call.fn = "optimize"

\* add_context, with an id no segment has had
AddContextFresh ==
    /\ AddContext
    /\ last_result' \notin IdsStored \cup removed
    /\ InPass => \A i \in 1..Len(call.move_to_working) :
                    call.move_to_working[i].id # last_result'

\* optimize up to the list move_to_working: get_all_segments, sort, slices
OptimizeBegin ==
    /\ call = NoCall
    /\ call' = [fn |-> "optimize", move_to_working |-> move_to_working_of(MM, now),
                i |-> 1, next |-> "delete"]
    /\ Returns("get_all_segments", ACTIVE, get_all_segments(MM, ACTIVE))
    /\ UNCHANGED <<active_memory, working_memory, long_term_memory, metrics,
                   last_cleanup, now, removed>>

\* await self.memory_manager.delete(MemoryTier.ACTIVE, segment.id)
PassDelete ==
    /\ InPass
    /\ call.i <= Len(call.move_to_working)
    /\ call.next = "delete"
    /\ LET segment == call.move_to_working[call.i]
           r == delete(MM, ACTIVE, segment.id)
       IN  /\ SetMM(r.mm)
           /\ Returns("delete", <<ACTIVE, segment.id>>, r.deleted)
    /\ call' = [call EXCEPT !.next = "store"]
    /\ UNCHANGED <<metrics, last_cleanup, now, removed>>

\* await self.memory_manager.store(MemoryTier.WORKING, segment)
PassStore ==
    /\ InPass
    /\ call.i <= Len(call.move_to_working)
    /\ call.next = "store"
    /\ LET segment == call.move_to_working[call.i]
       IN  /\ SetMM(store(MM, WORKING, segment))
           /\ Returns("store", <<WORKING, segment.id>>, segment.id)
    /\ call' = [call EXCEPT !.i = @ + 1, !.next = "delete"]
    /\ UNCHANGED <<metrics, last_cleanup, now, removed>>

\* the rest of optimize, after the loop
OptimizeEnd ==
    /\ InPass
    /\ call.i > Len(call.move_to_working)
    /\ LET mm == IF cleanup_due(now, last_cleanup)
                 THEN _cleanup_old_segments(MM, now)
                 ELSE MM
       IN  /\ SetMM(mm)
           /\ last_cleanup' = IF cleanup_due(now, last_cleanup)
                              THEN now ELSE last_cleanup
           /\ Returns("optimize", <<>>,
                       [memory_usage |-> get_memory_usage(mm), metrics |-> metrics])
    /\ call' = NoCall
    /\ UNCHANGED <<metrics, now, removed>>

\* the public methods, with segment ids that are distinct
NextDistinct ==
    \/ Tick
    \/ AddContextFresh
    \/ RetrieveRelevant
    \/ RemoveContext
    \/ CompressContext
    \/ Optimize
    \/ GetMetrics
    \/ GetStatus

SpecDistinct == Init /\ [][NextDistinct]_vars

NextInterleaved ==
    \/ Tick
    \/ AddContextFresh
    \/ RemoveContextTracked
    \/ OptimizeBegin
    \/ PassDelete
    \/ PassStore
    \/ OptimizeEnd

SpecInterleaved == Init /\ [][NextInterleaved]_vars

-----------------------------------------------------------------------------
(* A ContextManager with a budget that the long content fits: its segment
   stays in active, where compress_context shortens it *)

wide_context_size == 32     \* ContextConfig(max_context_size=32)

\* add_context; one call more than MaxSegments, so that a content can be added
\* again
AddContextWide ==
    /\ metrics.total_segments < MaxSegments + 1
    /\ \E content \in Contents :
         LET mm == add_context_under(MM, content, now, wide_context_size)
         IN  /\ SetMM(mm)
             /\ metrics' = [total_segments |-> metrics.total_segments + 1,
                            active_segments |-> Len(get_all_segments(mm, ACTIVE))]
             /\ Returns("add_context", content,
                         _generate_segment_id(content, now))
    /\ UNCHANGED <<last_cleanup, now, call, removed>>

NextWide ==
    \/ Tick
    \/ AddContextWide
    \/ CompressContext
    \/ Optimize

SpecWide == Init /\ [][NextWide]_vars

-----------------------------------------------------------------------------
(* BasicCompressionEngine.compress on its own: one call per behaviour *)

Pattern == <<"l","o","r","e","m"," ","i","p","s","u","m"," ">>

\* the text of length n that repeats Pattern
Sample(n) == [i \in 1..n |-> Pattern[((i - 1) % Len(Pattern)) + 1]]

SampleContents == {Sample(n) : n \in 0..MaxLen}

\* target ratios, as fractions: 0.0, 0.1, 0.3, 0.5, 0.9, 1.0
Ratios == {<<0, 1>>, <<1, 10>>, <<3, 10>>, <<1, 2>>, <<9, 10>>, <<1, 1>>}

InitCompress ==
    /\ active_memory = <<>>
    /\ working_memory = <<>>
    /\ long_term_memory = <<>>
    /\ metrics = [total_segments |-> 0, active_segments |-> 0]
    /\ last_cleanup = 0
    /\ now = 0
    /\ last_op = "init"
    /\ last_arg = <<>>
    /\ last_result = <<>>
    /\ removed = {}
    /\ call \in [fn : {"compress"}, content : SampleContents, target_ratio : Ratios,
                 returned : {FALSE}, result : {<<>>}]

CompressCall ==
    /\ call.fn = "compress"
    /\ ~call.returned
    /\ call' = [call EXCEPT !.returned = TRUE,
                            !.result = compress(call.content, call.target_ratio)]
    /\ UNCHANGED <<active_memory, working_memory, long_term_memory, metrics,
                   last_cleanup, now, last_op, last_arg, last_result, removed>>

NextCompress == CompressCall

SpecCompress == InitCompress /\ [][NextCompress]_vars

-----------------------------------------------------------------------------
(* BasicRetrievalEngine.retrieve on its own: the same call made twice on one
   candidate list *)

\* the segments a candidate list is made of, with the scores earlier calls left
CandidateSegments ==
    {from_dict([id |-> _generate_segment_id(c, t), content |-> c, timestamp |-> t,
                relevance_score |-> score, access_count |-> 0,
                compression_ratio |-> One]) :
        c \in Contents, t \in {0, 1}, score \in {One, <<1, 2>>}}

CandidateLists == UNION {[1..k -> CandidateSegments] : k \in 0..MaxSegments}

InitRetrieve ==
    /\ active_memory \in CandidateLists
    /\ working_memory = <<>>
    /\ long_term_memory = <<>>
    /\ metrics = [total_segments |-> 0, active_segments |-> 0]
    /\ last_cleanup = 0
    /\ now = 0
    /\ last_op = "init"
    /\ last_arg = <<>>
    /\ last_result = <<>>
    /\ removed = {}
    /\ call \in [fn : {"retrieve"}, query : Queries, limit : Limits,
                 segments : {active_memory}, calls : {0},
                 first : {<<>>}, second : {<<>>}]

\* retrieve(query, segments, limit), the first time
RetrieveCall ==
    /\ call.fn = "retrieve"
    /\ call.calls = 0
    /\ LET r == BasicRetrievalEngine_retrieve(call.query, active_memory, call.limit)
       IN  /\ active_memory' = r.segments
           /\ call' = [call EXCEPT !.calls = 1, !.first = r.result]
    /\ UNCHANGED <<working_memory, long_term_memory, metrics, last_cleanup, now,
                   last_op, last_arg, last_result, removed>>

\* the same call on the list as the first call left it
RetrieveAgain ==
    /\ call.fn = "retrieve"
    /\ call.calls = 1
    /\ LET r == BasicRetrievalEngine_retrieve(call.query, active_memory, call.limit)
       IN  /\ active_memory' = r.segments
           /\ call' = [call EXCEPT !.calls = 2, !.second = r.result]
    /\ UNCHANGED <<working_memory, long_term_memory, metrics, last_cleanup, now,
                   last_op, last_arg, last_result, removed>>

NextRetrieve == RetrieveCall \/ RetrieveAgain

SpecRetrieve == InitRetrieve /\ [][NextRetrieve]_vars

-----------------------------------------------------------------------------
(* Claims *)

IdsOf(tier_dict) == {tier_dict[i].id : i \in 1..Len(tier_dict)}

\* C1: every segment id is a key of at most one of the three tiers.
C1_SingleTier ==
    /\ IdsOf(active_memory) \cap IdsOf(working_memory) = {}
    /\ IdsOf(active_memory) \cap IdsOf(long_term_memory) = {}
    /\ IdsOf(working_memory) \cap IdsOf(long_term_memory) = {}

\* C2: an optimize that directly follows an optimize leaves the membership of
\* the three tiers as the first one left it.
C2_OptimizeIdempotent ==
    [][(last_op = "optimize" /\ last_op' = "optimize") =>
          /\ IdsOf(active_memory') = IdsOf(active_memory)
          /\ IdsOf(working_memory') = IdsOf(working_memory)
          /\ IdsOf(long_term_memory') = IdsOf(long_term_memory)]_vars

\* C3: for a target ratio below 1.0, compress returns a text no longer than
\* the content it was given.
C3_NeverExpands ==
    (call.fn = "compress" /\ call.returned
        /\ call.target_ratio[1] < call.target_ratio[2])
    => Len(call.result) <= Len(call.content)

\* the first tier, in the order active, working, long_term, that holds the id
FirstTier(segment_id) ==
    IF segment_id \in IdsOf(active_memory) THEN ACTIVE
    ELSE IF segment_id \in IdsOf(working_memory) THEN WORKING
    ELSE LONG_TERM

\* C4: after a successful compress_context the segment's compression_ratio is
\* the length of its content now over the length of its content before.
C4_RatioRecorded ==
    [][(last_op' = "compress_context" /\ last_result') =>
          LET tier == FirstTier(last_arg')
              i == index_of(MM[tier], last_arg')
              before == MM[tier][i]
              after == MM'[tier][i]
          IN  after.compression_ratio =
                  Frac(Len(after.content), Len(before.content))]_vars

\* the aggregate content length of the active tier once the new segment is in
SizeWith(segment_id, content) ==
    sum_len(SelectSeq(active_memory, LAMBDA x : x.id # segment_id), 1) + Len(content)

\* C5: add_context runs the pass exactly when the active contents, the new one
\* included, are longer in all than max_context_size; a pass over n active
\* segments leaves floor(0.6 * n) of them in active and moves the others to
\* working; without a pass no segment changes tier.
C5_AddContextPass ==
    [][last_op' = "add_context" =>
          LET listed == IdsOf(active_memory) \cup {last_result'}
              n == Cardinality(listed)
              kept == IdsOf(active_memory')
          IN  IF SizeWith(last_result', last_arg') > max_context_size
              THEN /\ 10 * Len(active_memory') <= 6 * n
                   /\ 6 * n < 10 * (Len(active_memory') + 1)
                   /\ kept \subseteq listed
                   /\ IdsOf(working_memory') = IdsOf(working_memory) \cup (listed \ kept)
                   /\ long_term_memory' = long_term_memory
              ELSE /\ kept = listed
                   /\ Len(active_memory') = n
                   /\ working_memory' = working_memory
                   /\ long_term_memory' = long_term_memory]_vars

\* an add_context whose pass ran over two segments: the new segment is in
\* working, one segment is left in active
C5_Witness ==
    /\ last_op = "add_context"
    /\ last_result \notin IdsOf(active_memory)
    /\ last_result \in IdsOf(working_memory)
    /\ Len(active_memory) = 1
    /\ Len(working_memory) = 1

\* C8: compress_context with an id that no tier holds returns False and leaves
\* the tiers and every field of every stored segment as they were.
C8_CompressMissing ==
    [][(last_op' = "compress_context" /\ last_arg' \notin IdsStored) =>
          /\ last_result' = FALSE
          /\ MM' = MM]_vars

\* a compress_context that found nothing although segments are stored
C8_Witness ==
    /\ last_op = "compress_context"
    /\ last_result = FALSE
    /\ AllSegments # <<>>

Min(a, b) == IF a < b THEN a ELSE b

\* C10: retrieve_relevant returns the stored segments that share a word with
\* the query, each with relevance_score = |query_words & content_words| /
\* |query_words|, by descending score, equal scores in the order active,
\* working, long_term and the listing order within a tier, cut to limit
\* entries; a query without words returns the empty list.
C10_Retrieval ==
    [][last_op' = "retrieve_relevant" =>
          LET candidates == AllSegments
              query_words == words_of(last_arg'[1])
              limit == last_arg'[2]
              returned == last_result'
              common(i) == Cardinality(query_words \cap words_of(candidates[i].content))
              matching == {i \in 1..Len(candidates) : common(i) > 0}
              ahead(j, i) == common(j) > common(i) \/ (common(j) = common(i) /\ j < i)
              place(i) == Cardinality({j \in matching : ahead(j, i)}) + 1
          IN  /\ Len(returned) = Min(limit, Cardinality(matching))
              /\ \A i \in matching :
                    place(i) <= Len(returned) =>
                        returned[place(i)] =
                            [candidates[i] EXCEPT !.relevance_score =
                                Frac(common(i), Cardinality(query_words))]
              /\ (query_words = {} => returned = <<>>)]_vars

\* a retrieval that returned two segments, the later candidate first because
\* its score is higher
C10_Witness ==
    /\ last_op = "retrieve_relevant"
    /\ Len(last_result) = 2
    /\ FracLess(last_result[2].relevance_score, last_result[1].relevance_score)
    /\ Len(AllSegments) = 2
    /\ AllSegments[1].id = last_result[2].id
    /\ AllSegments[2].id = last_result[1].id

\* the access counts of the stored segments, by tier and position
AccessCounts(mm) ==
    [k \in 1..Len(Tiers) |->
        [j \in 1..Len(mm[Tiers[k]]) |-> mm[Tiers[k]][j].access_count]]

TierIndex(tier) == CHOOSE k \in 1..Len(Tiers) : Tiers[k] = tier

\* the counts with one more access of the segment at position i of tier
CountedOnce(mm, tier, i) ==
    [AccessCounts(mm) EXCEPT ![TierIndex(tier)][i] = @ + 1]

\* C6: no operation lowers the access_count of a stored segment; a read by id
\* that finds the segment (MemoryManager.retrieve, and the search of
\* compress_context over the tiers) adds exactly 1 to that segment and nothing
\* to any other, and a read that misses changes no count.
C6_AccessCount ==
    [][/\ \A i \in 1..Len(AllSegments') :
             \/ last_op' = "add_context" /\ AllSegments'[i].id = last_result'
             \/ \E j \in 1..Len(AllSegments) :
                   /\ AllSegments[j].id = AllSegments'[i].id
                   /\ AllSegments[j].access_count <= AllSegments'[i].access_count
       /\ last_op' = "compress_context" =>
             IF last_arg' \in IdsStored
             THEN AccessCounts(MM') =
                     CountedOnce(MM, FirstTier(last_arg'),
                                 index_of(MM[FirstTier(last_arg')], last_arg'))
             ELSE AccessCounts(MM') = AccessCounts(MM)
       /\ last_op' = "retrieve" =>
             IF last_arg'[2] \in IdsOf(MM[last_arg'[1]])
             THEN /\ last_result' = TRUE
                  /\ AccessCounts(MM') =
                        CountedOnce(MM, last_arg'[1],
                                    index_of(MM[last_arg'[1]], last_arg'[2]))
             ELSE /\ last_result' = FALSE
                  /\ AccessCounts(MM') = AccessCounts(MM)]_vars

\* a compress_context that missed in active, found the segment in working and
\* counted one access
C6_Witness ==
    /\ last_op = "compress_context"
    /\ last_result = TRUE
    /\ last_arg \notin IdsOf(active_memory)
    /\ last_arg \in IdsOf(working_memory)
    /\ working_memory[index_of(working_memory, last_arg)].access_count = 1

\* C7: _cleanup_old_segments deletes from long_term the segments that are older
\* than 30 days and have been accessed fewer than 2 times, keeps every other
\* long_term segment, and leaves active and working alone; optimize runs it
\* so when the cleanup interval has passed.
C7_Cleanup ==
    [][(\/ last_op' = "_cleanup_old_segments"
        \/ last_op' = "optimize" /\ now - last_cleanup > 1) =>
          /\ long_term_memory' =
                SelectSeq(long_term_memory,
                          LAMBDA x : ~(now - x.timestamp > 30 * 24 /\ x.access_count < 2))
          /\ last_op' = "_cleanup_old_segments" =>
                /\ active_memory' = active_memory
                /\ working_memory' = working_memory]_vars

\* a cleanup that deleted a segment and kept one that is as old but has been
\* accessed twice
C7_Witness ==
    /\ last_op = "_cleanup_old_segments"
    /\ last_result >= 1
    /\ \E i \in 1..Len(long_term_memory) :
          /\ now - long_term_memory[i].timestamp > 30 * 24
          /\ long_term_memory[i].access_count >= 2

\* C9: remove_context of an id that a tier holds returns True, takes one
\* segment out of the store and leaves the others in their tiers; from then on
\* no tier holds that id.
C9_RemoveContext ==
    [][/\ (last_op' = "remove_context" /\ last_arg' \in IdsStored) =>
             /\ last_result' = TRUE
             /\ get_memory_usage(MM').total = get_memory_usage(MM).total - 1
             /\ metrics'.total_segments = metrics.total_segments - 1
             /\ \A k \in 1..Len(Tiers) :
                   SelectSeq(MM'[Tiers[k]], LAMBDA x : x.id # last_arg') =
                   SelectSeq(MM[Tiers[k]], LAMBDA x : x.id # last_arg')
       /\ removed' \cap IdsStored' = {}]_vars

\* the ids of a list of segments, in order
IdList(segments) == [i \in 1..Len(segments) |-> segments[i].id]

\* C11: retrieve called twice in a row with the same query, the same candidate
\* list and the same limit returns the same ids in the same order, although
\* the first call has overwritten the relevance_score of the segments it scored.
C11_Deterministic ==
    (call.fn = "retrieve" /\ call.calls = 2) =>
        IdList(call.second) = IdList(call.first)

\* two calls have returned two segments of different scores, and the first
\* call changed a score that decides the order
C11_Witness ==
    /\ call.fn = "retrieve"
    /\ call.calls = 2
    /\ Len(call.second) = 2
    /\ call.second[1].relevance_score # call.second[2].relevance_score
    /\ \E i \in 1..Len(call.segments) :
          /\ call.segments[i].relevance_score # active_memory[i].relevance_score
          /\ \E j \in 1..Len(call.segments) :
                FracLess(call.segments[j].relevance_score,
                         call.segments[i].relevance_score)

\* the tiers below the k-th hold the id
HeldBelow(mm, k, segment_id) ==
    \E j \in (k + 1)..Len(Tiers) : segment_id \in IdsOf(mm[Tiers[j]])

\* C12: an id that enters a tier was in none of the tiers below it (a segment
\* goes active -> working -> long_term or is removed, never back up), and no
\* tier holds an id that remove_context has removed.
C12_OneDirection ==
    [][/\ \A k \in 1..Len(Tiers) :
             \A segment_id \in IdsOf(MM'[Tiers[k]]) \ IdsOf(MM[Tiers[k]]) :
                 ~HeldBelow(MM, k, segment_id)
       /\ removed' \cap IdsStored' = {}]_vars

\* C13: in what optimize returns, the active_segments of the metrics is the
\* number of active segments of the memory usage.
C13_OptimizeSnapshot ==
    last_op = "optimize" =>
        last_result.metrics.active_segments = last_result.memory_usage.active

\* C14: optimize always runs the pass over active (it keeps floor(0.6 n) of
\* the n active segments and moves the others to working); it runs the cleanup
\* of long_term exactly when more than cleanup_interval_minutes (one hour)
\* have passed since _last_cleanup, and sets _last_cleanup to the clock exactly
\* then; no other operation changes _last_cleanup.
C14_OptimizeCleanup ==
    [][/\ last_op' = "optimize" =>
             /\ Len(active_memory') = (Len(active_memory) * 6) \div 10
             /\ IdsOf(active_memory') \subseteq IdsOf(active_memory)
             /\ IdsOf(working_memory') =
                   IdsOf(working_memory) \cup
                   (IdsOf(active_memory) \ IdsOf(active_memory'))
             /\ IF (now - last_cleanup) * 60 > 60
                THEN /\ last_cleanup' = now
                     /\ long_term_memory' =
                           SelectSeq(long_term_memory,
                                     LAMBDA x : ~(/\ now - x.timestamp > 30 * 24
                                                  /\ x.access_count < 2))
                ELSE /\ last_cleanup' = last_cleanup
                     /\ long_term_memory' = long_term_memory
       /\ last_op' # "optimize" => last_cleanup' = last_cleanup]_vars

\* optimize has run the cleanup at this reading of the clock, more than an
\* hour after the start, and returns with a segment in working and one kept in
\* long_term
C14_Witness ==
    /\ last_op = "optimize"
    /\ last_cleanup = now
    /\ now > 1
    /\ last_result.memory_usage.working > 0
    /\ last_result.memory_usage.long_term > 0

\* C15: with the steps of a pass interleaved with other operations, every id
\* is still in one tier at most, and no tier holds an id whose remove_context
\* returned True.
C15_Serialized ==
    /\ \A j, k \in 1..Len(Tiers) :
          j # k => IdsOf(MM[Tiers[j]]) \cap IdsOf(MM[Tiers[k]]) = {}
    /\ removed \cap IdsStored = {}

\* the number of words the segment shares with the query
Shared(query, segment) ==
    Cardinality(words_of(query) \cap words_of(segment.content))

\* the segment as retrieve_relevant(query, _) is to leave it
Scored(query, segment) ==
    IF Shared(query, segment) > 0
    THEN [segment EXCEPT !.relevance_score =
             Frac(Shared(query, segment), Cardinality(words_of(query)))]
    ELSE segment

\* C16: retrieve_relevant changes only the relevance_score of the segments that
\* share a word with the query: every segment stays at its place in its tier
\* with its content, access_count and compression_ratio, a segment that shares
\* no word keeps the score it had, and the counters and _last_cleanup stay; the
\* score of a returned segment is the score the store holds for the next pass.
C16_RetrieveFrame ==
    [][last_op' = "retrieve_relevant" =>
          /\ \A k \in 1..Len(Tiers) :
                MM'[Tiers[k]] =
                   [i \in 1..Len(MM[Tiers[k]]) |->
                       Scored(last_arg'[1], MM[Tiers[k]][i])]
          /\ metrics' = metrics
          /\ last_cleanup' = last_cleanup
          /\ \A i \in 1..Len(last_result') :
                \E j \in 1..Len(AllSegments') : AllSegments'[j] = last_result'[i]]_vars

\* a retrieve_relevant that scored one segment and left another, which shares
\* no word with the query, with the score an earlier query wrote
C16_Witness ==
    /\ last_op = "retrieve_relevant"
    /\ Len(last_result) > 0
    /\ \E i \in 1..Len(AllSegments) :
          /\ Shared(last_arg[1], AllSegments[i]) = 0
          /\ AllSegments[i].relevance_score # One

\* C17: the pass of add_context runs once and keeps floor(0.6 n) of the n
\* active segments whatever their lengths.  So add_context can return with the
\* active contents still longer than max_context_size (only after a pass that
\* kept a segment), and it returns with an empty active tier exactly when the
\* one segment there is the new one and is longer than max_context_size.
C17_CoarseBound ==
    [][last_op' = "add_context" =>
          LET n == Cardinality(IdsOf(active_memory) \cup {last_result'})
              passed == SizeWith(last_result', last_arg') > max_context_size
          IN  /\ passed => Len(active_memory') = (n * 6) \div 10
              /\ current_size(MM') > max_context_size =>
                    passed /\ Len(active_memory') >= 1
              /\ Len(active_memory') = 0 <=>
                    n = 1 /\ Len(last_arg') > max_context_size]_vars

\* overshoot: add_context has returned with the active contents longer than
\* max_context_size
C17_Witness ==
    /\ last_op = "add_context"
    /\ current_size(MM) > max_context_size

\* undershoot: add_context has returned with an empty active tier, its one
\* oversized segment in working
C17_Undershoot ==
    /\ last_op = "add_context"
    /\ Len(active_memory) = 0
    /\ Len(last_arg) > max_context_size
    /\ last_result \in IdsOf(working_memory)

\* the active segments as the pass of the step finds them: for add_context
\* with the new segment stored, at the place of its id if the tier has the id
PassInput ==
    IF last_op' = "add_context"
    THEN get_all_segments(
            store(MM, ACTIVE,
                  ContextSegment(last_result', last_arg', now, One)), ACTIVE)
    ELSE active_memory

\* relevance_score * (1 / (1 + age in hours)) * access_count, as a fraction
Composite(segment) ==
    Frac(segment.relevance_score[1] * segment.access_count,
         segment.relevance_score[2] * (1 + (now - segment.timestamp)))

\* C18: a pass (of optimize, or of an add_context that moved a segment) moves
\* no segment whose composite score is greater than that of a segment it keeps;
\* a segment with access_count 0 scores zero; among equal scores it keeps the
\* segments listed first; and when no active segment has been read by id, the
\* pass of add_context moves the segment that add_context has just stored.
C18_DemoteByScore ==
    [][(\/ last_op' = "optimize"
        \/ last_op' = "add_context" /\ Len(active_memory') < Len(PassInput)) =>
          LET n == Len(PassInput)
              Kept(i) == PassInput[i].id \in IdsOf(active_memory')
          IN  /\ \A i, j \in 1..n :
                    (Kept(i) /\ ~Kept(j)) =>
                       /\ ~FracLess(Composite(PassInput[i]), Composite(PassInput[j]))
                       /\ Composite(PassInput[i]) = Composite(PassInput[j]) => i < j
              /\ \A i \in 1..n :
                    PassInput[i].access_count = 0 => Composite(PassInput[i]) = Zero
              /\ (/\ last_op' = "add_context"
                  /\ \A i \in 1..n : PassInput[i].access_count = 0) =>
                    /\ last_result' \notin IdsOf(active_memory')
                    /\ last_result' \in IdsOf(working_memory')]_vars

\* C19: with the public methods of the ContextManager alone, long_term stays
\* empty (nothing moves a segment there, so the cleanup deletes nothing), and
\* working loses a segment only through remove_context.
C19_LongTermEmpty ==
    [][/\ long_term_memory' = <<>>
       /\ long_term_memory = <<>>
       /\ ~(IdsOf(working_memory) \subseteq IdsOf(working_memory')) =>
             last_op' = "remove_context"
       /\ Len(working_memory') < Len(working_memory) =>
             last_op' = "remove_context"]_vars

\* optimize has run the cleanup while working holds a segment older than 30
\* days, and long_term is empty
C19_Witness ==
    /\ last_op = "optimize"
    /\ last_cleanup = now
    /\ \E i \in 1..Len(working_memory) :
          now - working_memory[i].timestamp > retention_days * 24
    /\ long_term_memory = <<>>

\* C20: with distinct segment ids, metrics.total_segments is the number of
\* segments the three tiers hold; add_context adds 1 to both, a remove_context
\* that returns True takes 1 from both, and a remove_context that returns False
\* and every other operation change neither.
C20_TotalSegments ==
    [][LET total == get_memory_usage(MM).total
           total_after == get_memory_usage(MM').total
           step == IF last_op' = "add_context" THEN 1
                   ELSE IF last_op' = "remove_context" /\ last_result' = TRUE THEN -1
                   ELSE 0
       IN  /\ metrics'.total_segments = total_after
           /\ total_after = total + step
           /\ metrics'.total_segments = metrics.total_segments + step]_vars

\* a remove_context that returned True and left one segment, in working
C20_Witness ==
    /\ last_op = "remove_context"
    /\ last_result = TRUE
    /\ metrics.total_segments = 1
    /\ Len(working_memory) = 1

=============================================================================
